---- MODULE Spec2Model ----
(***************************************************************************)
(* Sender quota and rotation engine of the bulk email dispatcher (app.py). *)
(*                                                                         *)
(* The relational store is modelled by the meaning of its SQL statements:  *)
(* the email_accounts table is a set of rows addressed by column name, and *)
(* every statement is one atomic step.  The columns password, default_cc,  *)
(* default_bcc and updated_at are carried opaquely by the program and take *)
(* no part in quota accounting or sender selection; they are left out of   *)
(* the rows.  Calendar days are integers; date.today() reads the variable  *)
(* today.                                                                  *)
(***************************************************************************)
EXTENDS Integers, FiniteSets, Sequences, TLC

\* Program constant: the daily send limit per sender account.
EMAIL_LIMIT_PER_ACCOUNT == 15

\* Bounds of the model.
MaxDay == 2
MaxBatch == 2
MaxAdminOps == 1
MaxDirectCalls == 1
MaxLen == 3
MaxRows == 2
MaxOtps == 2
MaxNow == 2

Users == {1, 2}
Mailboxes == {"a@x", "b@x"}
NoSender == "none"
\* The request slots: two send_emails requests and their background threads.
Campaigns == {1, 2}
BatchSizes == 1..MaxBatch
InitCounts == {EMAIL_LIMIT_PER_ACCOUNT - 1, EMAIL_LIMIT_PER_ACCOUNT}

VARIABLES
    accounts,       \* the rows of table email_accounts
    next_id,        \* next value of the SERIAL id / CURRENT_TIMESTAMP order
    admin_ops,      \* number of account-management requests served so far
    today,          \* the current calendar day
    camp,           \* one record per send_emails request and its background task
    email_status,   \* the in-memory status dictionary, one entry per user
    email_logs,     \* the rows of table email_logs, each with its email_status rows
    direct_calls,   \* number of transport calls made outside a campaign record
    fallback_used,  \* history: the all-accounts-exhausted branch has returned a sender
    reset_today,    \* history, per user: 0 no reset_daily_counts call today, 1 called
                    \* today, 2 called today and a send recorded for the user since
    last,           \* history: the operation performed by the last step
    password_reset_otp,  \* the rows of table password_reset_otp
    otp_seq,        \* next value of the SERIAL id of password_reset_otp
    now,            \* the clock, in units of the OTP lifetime
    session,        \* the Flask session of each browser
    verifying,      \* the verify_otp call in progress in each browser session
    saving,         \* the save_otp call in progress in each browser session
    password_hash   \* users.password_hash: 0 or 1, every new hash differs from the old

vars == <<accounts, next_id, admin_ops, today, camp, email_status, email_logs,
          direct_calls, fallback_used, reset_today, last,
          password_reset_otp, otp_seq, now, session, verifying, saving,
          password_hash>>

\* The state of the password reset.
reset_vars == <<password_reset_otp, otp_seq, now, session, verifying, saving,
          password_hash>>

-----------------------------------------------------------------------------
(* Quota store: the SQL statements over email_accounts.                    *)

\* UPDATE email_accounts SET sent_count = 0, last_reset = today
\* WHERE user_id = %s AND last_reset < today
StaleRows(rows, user_id, d) ==
    {r \in rows : r.user_id = user_id /\ r.last_reset < d}

MutResetSkipped(rows, user_id, d) == rows

MutResetUnconditional(rows, user_id, d) ==
    {IF r.user_id = user_id
        THEN [r EXCEPT !.sent_count = 0, !.last_reset = d]
        ELSE r : r \in rows}

MutResetKeepsDate(rows, user_id, d) ==
    {IF r.user_id = user_id /\ r.last_reset < d
        THEN [r EXCEPT !.sent_count = 0]
        ELSE r : r \in rows}

reset_daily_counts(rows, user_id, d) ==
    {IF r.user_id = user_id /\ r.last_reset < d
        THEN [r EXCEPT !.sent_count = 0, !.last_reset = d]
        ELSE r : r \in rows}

\* SELECT ... WHERE user_id = %s AND is_active = TRUE ORDER BY created_at
get_email_accounts(rows, user_id) ==
    {r \in rows : r.user_id = user_id /\ r.is_active}

MutBelowLimitAnyStatus(rows, user_id) ==
    {r \in rows : r.user_id = user_id /\ r.sent_count < EMAIL_LIMIT_PER_ACCOUNT}

\* First query of get_available_sender:
\* WHERE user_id = %s AND is_active = TRUE AND sent_count < limit
QueryBelowLimit(rows, user_id) ==
    {r \in rows : r.user_id = user_id /\ r.is_active
                  /\ r.sent_count < EMAIL_LIMIT_PER_ACCOUNT}

\* Second query of get_available_sender: WHERE user_id = %s AND is_active = TRUE
MutQueryAnyStatus(rows, user_id) ==
    {r \in rows : r.user_id = user_id}

QueryActive(rows, user_id) ==
    {r \in rows : r.user_id = user_id /\ r.is_active}

\* ORDER BY sent_count ASC, created_at ASC
MutOrderByCreatedOnly(r, s) ==
    r.created_at <= s.created_at

OrderBySentCreated(r, s) ==
    \/ r.sent_count < s.sent_count
    \/ r.sent_count = s.sent_count /\ r.created_at <= s.created_at

\* ORDER BY created_at ASC
OrderByCreated(r, s) ==
    r.created_at <= s.created_at

\* The sender returned by get_available_sender once reset_daily_counts has run:
\* the first row of the first query, else the first row of the second query,
\* else (None, None, None, None).
MutNoFallback(rows, user_id) ==
    LET below == QueryBelowLimit(rows, user_id)
    IN  IF below # {}
        THEN (CHOOSE r \in below : \A s \in below : OrderBySentCreated(r, s)).email
        ELSE NoSender

get_available_sender(rows, user_id) ==
    LET below == QueryBelowLimit(rows, user_id)
        active == QueryActive(rows, user_id)
    IN  IF below # {}
        THEN (CHOOSE r \in below : \A s \in below : OrderBySentCreated(r, s)).email
        ELSE IF active # {}
        THEN (CHOOSE r \in active : \A s \in active : OrderByCreated(r, s)).email
        ELSE NoSender

\* get_available_sender returned from its second query (the logged warning).
UsesFallback(rows, user_id) ==
    QueryBelowLimit(rows, user_id) = {} /\ QueryActive(rows, user_id) # {}

\* UPDATE email_accounts SET sent_count = sent_count + 1
\* WHERE email = %s AND user_id = %s
MutRecordSendByEmail(rows, sender_email, user_id) ==
    {IF r.email = sender_email
        THEN [r EXCEPT !.sent_count = @ + 1]
        ELSE r : r \in rows}

MutRecordSendBelowLimit(rows, sender_email, user_id) ==
    {IF r.email = sender_email /\ r.user_id = user_id
           /\ r.sent_count < EMAIL_LIMIT_PER_ACCOUNT
        THEN [r EXCEPT !.sent_count = @ + 1]
        ELSE r : r \in rows}

record_send(rows, sender_email, user_id) ==
    {IF r.email = sender_email /\ r.user_id = user_id
        THEN [r EXCEPT !.sent_count = @ + 1]
        ELSE r : r \in rows}

\* UNIQUE(user_id, email)
UniqueViolation(rows, user_id, email, except_id) ==
    \E r \in rows : r.user_id = user_id /\ r.email = email /\ r.id # except_id

-----------------------------------------------------------------------------
(* Text.  A str is a sequence of one-character strings, so that split and  *)
(* strip are computed character by character.                              *)

\* str.strip(): leading and trailing whitespace removed.
RECURSIVE lstrip(_)
lstrip(s) ==
    IF s # <<>> /\ Head(s) = " " THEN lstrip(Tail(s)) ELSE s

RECURSIVE rstrip(_)
rstrip(s) ==
    IF s # <<>> /\ s[Len(s)] = " " THEN rstrip(SubSeq(s, 1, Len(s) - 1)) ELSE s

strip(s) == rstrip(lstrip(s))

\* Index of the first occurrence of character ch in s, 0 when absent.
find(s, ch) ==
    IF \E i \in 1..Len(s) : s[i] = ch
    THEN CHOOSE i \in 1..Len(s) : s[i] = ch /\ \A j \in 1..(i - 1) : s[j] # ch
    ELSE 0

\* str.split(sep): the pieces between the occurrences of sep, empty pieces kept.
RECURSIVE split(_, _)
split(s, sep) ==
    LET i == find(s, sep)
    IN  IF i = 0
        THEN <<s>>
        ELSE <<SubSeq(s, 1, i - 1)>> \o split(SubSeq(s, i + 1, Len(s)), sep)

\* list(dict.fromkeys(items)): the first occurrence of every item, in order.
RECURSIVE MutKeepLastOccurrence(_)
MutKeepLastOccurrence(items) ==
    IF items = <<>>
    THEN <<>>
    ELSE LET rest == Tail(items)
         IN  IF \E i \in 1..Len(rest) : rest[i] = Head(items)
             THEN MutKeepLastOccurrence(rest)
             ELSE <<Head(items)>> \o MutKeepLastOccurrence(rest)

RECURSIVE dict_fromkeys(_)
dict_fromkeys(items) ==
    IF items = <<>>
    THEN <<>>
    ELSE LET n == Len(items)
             front == dict_fromkeys(SubSeq(items, 1, n - 1))
         IN  IF \E i \in 1..Len(front) : front[i] = items[n]
             THEN front
             ELSE Append(front, items[n])

\* parse_email_list: [email.strip() for email in s.split(',') if email.strip()]
RECURSIVE stripped_nonempty(_)
stripped_nonempty(pieces) ==
    IF pieces = <<>>
    THEN <<>>
    ELSE LET e == strip(Head(pieces))
         IN  IF e = <<>>
             THEN stripped_nonempty(Tail(pieces))
             ELSE <<e>> \o stripped_nonempty(Tail(pieces))

parse_email_list(email_string) ==
    IF email_string = <<>> THEN <<>> ELSE stripped_nonempty(split(email_string, ","))

\* merge_cc_bcc_lists returns (merged_cc, merged_bcc).
merge_cc_bcc_lists(form_cc, form_bcc, default_cc, default_bcc) ==
    LET form_cc_list == IF form_cc # <<>> THEN parse_email_list(form_cc) ELSE <<>>
        form_bcc_list == IF form_bcc # <<>> THEN parse_email_list(form_bcc) ELSE <<>>
        default_cc_list == IF default_cc # <<>> THEN parse_email_list(default_cc) ELSE <<>>
        default_bcc_list == IF default_bcc # <<>> THEN parse_email_list(default_bcc) ELSE <<>>
    IN  [cc |-> dict_fromkeys(form_cc_list \o default_cc_list),
         bcc |-> dict_fromkeys(form_bcc_list \o default_bcc_list)]

------------------------------------------------------------------------------
(* The recipient source.  A sheet is a header row and data rows of cells; a *)
(* cell is its text, or None when it is empty.                              *)

\* An empty cell; differs from every text over one-character strings.
None == <<"None">>

\* columns = [str(cell.value) for cell in sheet[1] if cell.value is not None]
header_columns(header) == SelectSeq(header, LAMBDA cell : cell # None)

\* row_dict: the value at position i stored under columns[i] while
\* i < len(columns), a later column of the same name overwriting an earlier.
row_dict(row, columns) ==
    LET n == IF Len(row) < Len(columns) THEN Len(row) ELSE Len(columns)
        at(name) == CHOOSE i \in 1..n :
                       /\ columns[i] = name
                       /\ \A j \in 1..n : columns[j] = name => j <= i
    IN  [name \in {columns[i] : i \in 1..n} |->
            IF row[at(name)] = None THEN <<>> ELSE row[at(name)]]

\* any(value.strip() for value in row_dict.values() if value)
has_some_data(d) == \E name \in DOMAIN d : d[name] # <<>> /\ strip(d[name]) # <<>>

\* read_excel_file: the rows from the second on that have some data.
read_excel_file(sheet) ==
    LET columns == header_columns(sheet.header)
        dicts == [i \in 1..Len(sheet.rows) |-> row_dict(sheet.rows[i], columns)]
    IN  [data |-> SelectSeq(dicts, has_some_data), columns |-> columns]

\* Filtering of the dispatch loop: a row is valid iff the trimmed value of the
\* email column is non-empty; total-emails is the number of valid rows.
valid_rows(df, email_column) ==
    SelectSeq(df.data, LAMBDA d : /\ email_column \in DOMAIN d
                                  /\ strip(d[email_column]) # <<>>)

total_emails(sheet, email_column) ==
    Len(valid_rows(read_excel_file(sheet), email_column))

------------------------------------------------------------------------------
(* Password reset: the table password_reset_otp, the users and the browser *)
(* sessions.                                                               *)

\* users.email of two users, both with is_active = TRUE.
Emails == {"u1", "u2"}
ActiveEmails == {"u1", "u2"}
\* generate_otp(): six random digits, here one of two codes.
Otps == {"111111", "222222"}
Sessions == {1, 2}
NoEmail == ""

\* expires_at = datetime.now() + timedelta(minutes=10): ten minutes are the
\* unit of now.
OtpLifetime == 1

\* A session without reset_email and otp_verified.
NoSession == [reset_email |-> NoEmail, otp_verified |-> FALSE]
\* No verify_otp call in progress.
NotVerifying == [pc |-> "idle", email |-> NoEmail, otp |-> "", id |-> 0]

\* No save_otp call in progress.
NotSaving == [pc |-> "idle", email |-> NoEmail, otp |-> "", id |-> 0, deleted |-> {}]

\* DELETE FROM password_reset_otp WHERE email = %s: the ids of the rows the
\* statement finds, which are the committed rows of that email.
RowsToDelete(rows, email) == {r.id : r \in {q \in rows : q.email = email}}

MutSaveKeepsOld(rows, deleted, email, otp, id, t) ==
    rows \cup {[id |-> id, email |-> email, otp |-> otp, created_at |-> id,
                expires_at |-> t + OtpLifetime, used |-> FALSE]}

\* save_otp at its commit: the rows found by the DELETE are gone and the row
\* of the INSERT is there, with used DEFAULT FALSE.  created_at DEFAULT
\* CURRENT_TIMESTAMP is the start of the transaction, and id numbers the
\* transactions in the order of their start.
save_otp(rows, deleted, email, otp, id, t) ==
    {r \in rows : r.id \notin deleted}
      \cup {[id |-> id, email |-> email, otp |-> otp, created_at |-> id,
             expires_at |-> t + OtpLifetime, used |-> FALSE]}

\* SELECT id, expires_at ... WHERE email = %s AND otp = %s AND used = FALSE
SelectUnused(rows, email, otp) ==
    {r \in rows : r.email = email /\ r.otp = otp /\ ~ r.used}

\* ORDER BY created_at DESC LIMIT 1
Newest(rows) == CHOOSE r \in rows : \A q \in rows : q.created_at <= r.created_at

MutMarkNothing(rows, id) == rows

\* UPDATE password_reset_otp SET used = TRUE WHERE id = %s
mark_used(rows, id) ==
    {IF r.id = id THEN [r EXCEPT !.used = TRUE] ELSE r : r \in rows}

-----------------------------------------------------------------------------
(* History record of the last step.                                        *)

Op(op, user_id, email, n, ok, again) ==
    [op |-> op, user_id |-> user_id, email |-> email, n |-> n, ok |-> ok,
     again |-> again]

IdleCamp ==
    [pc |-> "idle", user_id |-> 0, sender_mode |-> "auto", sender |-> NoSender,
     emails_sent_with_current |-> 0, total |-> 0, todo |-> 0, calls |-> 0,
     error |-> "", remaining |-> 0, shortfall |-> 0,
     source |-> "ok", recipients |-> <<>>, started |-> FALSE,
     senders |-> <<>>]

MutFreshSending ==
    [is_sending |-> TRUE, total_emails |-> 0, sent_count |-> 0, failed_count |-> 0,
     current_email |-> <<>>, current_sender |-> NoSender,
     sender_rotation |-> [e \in Mailboxes |-> 0],
     failed_emails |-> <<>>, success_emails |-> <<>>]

\* The entry get_user_email_status creates for a user.
FreshStatus ==
    [is_sending |-> FALSE, total_emails |-> 0, sent_count |-> 0, failed_count |-> 0,
     current_email |-> <<>>, current_sender |-> NoSender,
     sender_rotation |-> [e \in Mailboxes |-> 0],
     failed_emails |-> <<>>, success_emails |-> <<>>]

Row(id, user_id, email, is_active, sent_count, last_reset) ==
    [id |-> id, user_id |-> user_id, email |-> email, is_active |-> is_active,
     sent_count |-> sent_count, last_reset |-> last_reset, created_at |-> id]

-----------------------------------------------------------------------------
(* Initial state: a populated store on day 1, no campaign requested.  User *)
(* 1 has registered both mailboxes, user 2 has registered a@x as well.     *)

Init ==
    /\ today = 1
    /\ \E c1 \in InitCounts, c2 \in {0, EMAIL_LIMIT_PER_ACCOUNT}, d1 \in {0, 1} :
          accounts = {Row(1, 1, "a@x", TRUE, c1, d1),
                      Row(2, 1, "b@x", TRUE, c2, 1),
                      Row(3, 2, "a@x", TRUE, EMAIL_LIMIT_PER_ACCOUNT - 1, 1)}
    /\ next_id = 4
    /\ admin_ops = 0
    /\ camp = [c \in Campaigns |-> IdleCamp]
    /\ email_status = [u \in Users |-> FreshStatus]
    /\ email_logs = <<>>
    /\ direct_calls = 0
    /\ fallback_used = FALSE
    /\ reset_today = [u \in Users |-> 0]
    /\ last = Op("init", 0, NoSender, 0, TRUE, 0)
    /\ password_reset_otp = {}
    /\ otp_seq = 1
    /\ now = 0
    /\ session = [b \in Sessions |-> NoSession]
    /\ verifying = [b \in Sessions |-> NotVerifying]
    /\ saving = [b \in Sessions |-> NotSaving]
    /\ password_hash = [e \in Emails |-> 0]

-----------------------------------------------------------------------------
(* The calendar.                                                           *)

Midnight ==
    /\ today < MaxDay
    /\ today' = today + 1
    /\ reset_today' = [u \in Users |-> 0]
    /\ last' = Op("midnight", 0, NoSender, 0, TRUE, 0)
    /\ UNCHANGED reset_vars
    /\ UNCHANGED <<accounts, next_id, admin_ops, camp, email_status, email_logs,
                   direct_calls, fallback_used>>

-----------------------------------------------------------------------------
(* Account management.                                                     *)

\* INSERT INTO email_accounts (user_id, email, ...): sent_count DEFAULT 0,
\* last_reset DEFAULT CURRENT_DATE, is_active DEFAULT TRUE.
add_email_account(user_id, email) ==
    /\ admin_ops < MaxAdminOps
    /\ admin_ops' = admin_ops + 1
    /\ IF UniqueViolation(accounts, user_id, email, 0)
       THEN /\ UNCHANGED <<accounts, next_id>>
            /\ last' = Op("add", user_id, email, 0, FALSE, 0)
       ELSE /\ accounts' = accounts \cup {Row(next_id, user_id, email, TRUE, 0, today)}
            /\ next_id' = next_id + 1
            /\ last' = Op("add", user_id, email, 1, TRUE, 0)
    /\ UNCHANGED <<today, camp, email_status, email_logs,
                   direct_calls, fallback_used, reset_today, reset_vars>>

\* UPDATE email_accounts SET email, password, is_active, ... WHERE id AND user_id
update_email_account(user_id, account_id, email, is_active) ==
    LET hit == {r \in accounts : r.id = account_id /\ r.user_id = user_id}
    IN  /\ admin_ops < MaxAdminOps
        /\ admin_ops' = admin_ops + 1
        /\ IF hit = {} \/ UniqueViolation(accounts, user_id, email, account_id)
           THEN /\ UNCHANGED accounts
                /\ last' = Op("update", user_id, email, 0, FALSE, 0)
           ELSE /\ accounts' = {IF r \in hit
                                   THEN [r EXCEPT !.email = email, !.is_active = is_active]
                                   ELSE r : r \in accounts}
                /\ last' = Op("update", user_id, email, 1, TRUE, 0)
        /\ UNCHANGED <<next_id, today, camp, email_status, email_logs,
                   direct_calls, fallback_used, reset_today, reset_vars>>

\* DELETE FROM email_accounts WHERE id = %s AND user_id = %s
delete_email_account(user_id, account_id) ==
    LET hit == {r \in accounts : r.id = account_id /\ r.user_id = user_id}
    IN  /\ admin_ops < MaxAdminOps
        /\ admin_ops' = admin_ops + 1
        /\ accounts' = accounts \ hit
        /\ last' = Op("delete", user_id, NoSender, Cardinality(hit), hit # {}, 0)
        /\ UNCHANGED <<next_id, today, camp, email_status, email_logs,
                   direct_calls, fallback_used, reset_today, reset_vars>>

-----------------------------------------------------------------------------
(* Calls into the quota store.  Each leaves camp and direct_calls to its   *)
(* caller.                                                                 *)

\* reset_daily_counts(user_id) as the first statement of a caller.
Resets(user_id) ==
    /\ accounts' = reset_daily_counts(accounts, user_id, today)
    /\ reset_today' = [reset_today EXCEPT ![user_id] = IF @ = 0 THEN 1 ELSE @]

\* get_account_stats(user_id): the reset, then a read of the owner's rows.
call_get_account_stats(user_id) ==
    /\ Resets(user_id)
    /\ last' = Op("stats", user_id, NoSender,
                  Cardinality(StaleRows(accounts, user_id, today)), TRUE,
                  reset_today[user_id])
    /\ UNCHANGED <<next_id, admin_ops, today, fallback_used, reset_vars>>

\* get_available_sender(user_id): the reset, then the two queries.
call_get_available_sender(user_id) ==
    LET rows == reset_daily_counts(accounts, user_id, today)
        sender == get_available_sender(rows, user_id)
    IN  /\ Resets(user_id)
        /\ fallback_used' = (fallback_used
                               \/ (sender # NoSender /\ UsesFallback(rows, user_id)))
        /\ last' = Op("select", user_id, sender,
                      Cardinality(StaleRows(accounts, user_id, today)), TRUE,
                      reset_today[user_id])
        /\ UNCHANGED <<next_id, admin_ops, today, reset_vars>>

MutCountsAttempts(rows, sender_email, user_id, ok) ==
    record_send(rows, sender_email, user_id)

\* send_email_smtp: when the SMTP dialogue and the UPDATE both succeed the
\* account's counter is incremented and (True, ...) returned; any exception
\* returns (False, error) with nothing committed.
send_email_smtp(rows, sender_email, user_id, ok) ==
    IF ok THEN record_send(rows, sender_email, user_id) ELSE rows

call_send_email_smtp(user_id, sender_email, ok) ==
    /\ accounts' = send_email_smtp(accounts, sender_email, user_id, ok)
    /\ reset_today' = [reset_today EXCEPT ![user_id] =
                          IF @ >= 1 /\ accounts' # accounts THEN 2 ELSE @]
    /\ last' = Op("send", user_id, sender_email, 0, ok, 0)
    /\ UNCHANGED <<next_id, admin_ops, today, fallback_used, reset_vars>>

-----------------------------------------------------------------------------
(* Statistics (the index, status and api/status pages).                    *)

get_account_stats(user_id) ==
    /\ call_get_account_stats(user_id)
    /\ UNCHANGED <<camp, email_status, email_logs, direct_calls>>

-----------------------------------------------------------------------------
(* The send_emails request handler.  Request c carries the sender mode,    *)
(* the pinned sender (manual mode) and the name of an uploaded file.  The  *)
(* file is given by what reading it yields: source says whether it exists, *)
(* can be read and has the declared email column, recipients is the        *)
(* ordered list of its valid recipient addresses.  The handler either      *)
(* flashes an error and returns, or starts the background task.            *)

Sources == {"ok", "missing", "unreadable", "no_column"}

\* Recipient addresses as typed in the sheet; validity asks only for a
\* non-empty trimmed value, and the second one carries a "m:" prefix.
Addresses == << <<"r", "1">>, <<"m", ":", "r", "2">>, <<"r", "3">> >>
Address(i) == Addresses[((i - 1) % 3) + 1]
RecipientList(n) == [i \in 1..n |-> Address(i)]
RecipientLists == {RecipientList(n) : n \in BatchSizes}

Rejected(c, user_id, mode, selected, n, error, remaining) ==
    camp' = [camp EXCEPT ![c] =
        [IdleCamp EXCEPT !.pc = "rejected", !.user_id = user_id, !.sender_mode = mode,
                         !.sender = selected, !.total = n,
                         !.error = error, !.remaining = remaining]]

\* SELECT sent_count ... WHERE user_id = %s AND email = %s, and the test
\* account and account['sent_count'] >= EMAIL_LIMIT_PER_ACCOUNT
AtDailyLimit(rows, user_id, selected) ==
    \E r \in rows : /\ r.user_id = user_id /\ r.email = selected
                    /\ r.sent_count >= EMAIL_LIMIT_PER_ACCOUNT

SentCountOf(rows, user_id, email) ==
    (CHOOSE r \in rows : r.user_id = user_id /\ r.email = email).sent_count

\* Thread(target=send_emails_task).start() and the 'started in background' flash.
Started(c, user_id, mode, selected, source, recipients) ==
    camp' = [camp EXCEPT ![c] =
        [IdleCamp EXCEPT !.pc = "queued", !.user_id = user_id, !.sender_mode = mode,
                         !.sender = selected, !.total = Len(recipients),
                         !.todo = Len(recipients), !.source = source,
                         !.recipients = recipients, !.started = TRUE]]

\* os.path.exists(filepath) fails: 'Uploaded file not found.'  Otherwise the
\* thread is started.
FileCheck(c, user_id, mode, selected, source, recipients) ==
    IF source = "missing"
    THEN Rejected(c, user_id, mode, selected, Len(recipients), "file_not_found", 0)
    ELSE Started(c, user_id, mode, selected, source, recipients)

send_emails(c, user_id, mode, selected, source, recipients) ==
    /\ camp[c].pc = "idle"
    /\ \A b \in Campaigns : b < c => camp[b].pc # "idle"
    /\ mode = "auto" => selected = NoSender
    /\ IF source = "ok" THEN recipients # <<>> ELSE recipients = <<>>
    /\ last' = Op("send_emails", user_id, selected, Len(recipients), TRUE, 0)
    /\ UNCHANGED <<next_id, admin_ops, today, email_status, email_logs, direct_calls,
                   fallback_used, reset_vars>>
    /\ IF mode = "manual" /\ selected = NoSender
       THEN \* 'Please select an email account for manual mode.'
            /\ Rejected(c, user_id, mode, selected, Len(recipients),
                        "no_sender_selected", 0)
            /\ UNCHANGED <<accounts, reset_today>>
       ELSE IF mode = "manual"
               /\ ~ \E r \in accounts : /\ r.user_id = user_id /\ r.email = selected
                                        /\ r.is_active
       THEN \* 'Selected email account is not configured or inactive.'
            /\ Rejected(c, user_id, mode, selected, Len(recipients), "inactive", 0)
            /\ UNCHANGED <<accounts, reset_today>>
       ELSE IF get_email_accounts(accounts, user_id) = {}
       THEN \* 'No email accounts configured.'
            /\ Rejected(c, user_id, mode, selected, Len(recipients), "no_accounts", 0)
            /\ UNCHANGED <<accounts, reset_today>>
       ELSE IF mode = "manual"
       THEN LET rows == reset_daily_counts(accounts, user_id, today)
            IN  /\ Resets(user_id)
                /\ IF AtDailyLimit(rows, user_id, selected)
                   THEN \* 'Selected account has reached its daily limit of 15 emails.'
                        Rejected(c, user_id, mode, selected, Len(recipients),
                                 "daily_limit",
                                 EMAIL_LIMIT_PER_ACCOUNT
                                   - SentCountOf(rows, user_id, selected))
                   ELSE FileCheck(c, user_id, mode, selected, source, recipients)
       ELSE /\ FileCheck(c, user_id, mode, selected, source, recipients)
            /\ UNCHANGED <<accounts, reset_today>>

-----------------------------------------------------------------------------
(* Persisting a campaign log.                                              *)

\* The text produced by a failing transport call, return False, str(e).
ErrorDetail == <<"e", ":", "1">>

\* The failure-list entry "recipient: error-detail".
FailedEntry(recipient, error) == recipient \o <<":", " ">> \o error

\* failed_entry.split(':', 1)
split_once(s, sep) ==
    LET i == find(s, sep)
    IN  <<SubSeq(s, 1, i - 1), SubSeq(s, i + 1, Len(s))>>

\* The rows inserted into email_status for the entries of failed_emails:
\* entries without ':' are skipped, the others give
\* (email_addr.strip(), 'failed', error.strip()).
RECURSIVE FailedRows(_, _)
FailedRows(entries, sender_email) ==
    IF entries = <<>>
    THEN <<>>
    ELSE LET entry == Head(entries)
             parts == split_once(entry, ":")
         IN  (IF find(entry, ":") # 0
              THEN <<[recipient_email |-> strip(parts[1]), sender_email |-> sender_email,
                      status |-> "failed", error_message |-> strip(parts[2])]>>
              ELSE <<>>)
             \o FailedRows(Tail(entries), sender_email)

\* The rows inserted into email_status for the entries of success_emails.
SuccessRows(emails, sender_email) ==
    [i \in 1..Len(emails) |->
        [recipient_email |-> emails[i], sender_email |-> sender_email,
         status |-> "success", error_message |-> <<>>]]

MutLogMisfiled(user_id, log_data, log_filename) ==
    [user_id |-> user_id, log_filename |-> 0,
     sender_email |-> log_data.sender_email, sender_mode |-> log_data.sender_mode,
     total_emails |-> log_data.total_emails, sent_count |-> log_data.sent_count,
     failed_count |-> log_data.failed_count,
     rows |-> SuccessRows(log_data.success_emails, log_data.sender_email)
                \o FailedRows(log_data.failed_emails, log_data.sender_email)]

\* save_email_log(user_id, log_data, log_filename): the email_logs row and its
\* email_status rows, committed together.
save_email_log(user_id, log_data, log_filename) ==
    [user_id |-> user_id, log_filename |-> log_filename,
     sender_email |-> log_data.sender_email, sender_mode |-> log_data.sender_mode,
     total_emails |-> log_data.total_emails, sent_count |-> log_data.sent_count,
     failed_count |-> log_data.failed_count,
     rows |-> SuccessRows(log_data.success_emails, log_data.sender_email)
                \o FailedRows(log_data.failed_emails, log_data.sender_email)]

------------------------------------------------------------------------------
(* save_email_log inside its connection.  The INSERT statements run in one  *)
(* transaction: the log row, one row per success, one per failure entry,   *)
(* then conn.commit().  fail_at names the statement that raises (0: none); *)
(* the exception leaves the with-blocks, the connection rolls back, and    *)
(* the except clause logs the error and returns.                           *)

\* The statements that ran before the one that raised, of n statements.
Executed(n, fail_at) == IF fail_at \in 1..n THEN fail_at - 1 ELSE n

MutAutocommit(db, pending, raised) == db \o pending

\* connection_pool.connection(): commit on a normal exit, rollback when an
\* exception leaves the block.
Transaction(db, pending, raised) == IF raised THEN db ELSE db \o pending

save_email_log_in(db, user_id, log_data, log_filename, fail_at) ==
    LET log == save_email_log(user_id, log_data, log_filename)
        n == Len(log.rows) + 2
        done == Executed(n, fail_at)
        pending == IF done = 0 THEN <<>>
                   ELSE <<[log EXCEPT !.rows =
                              SubSeq(@, 1, IF done - 1 < Len(@) THEN done - 1 ELSE Len(@))]>>
    IN  Transaction(db, pending, done < n)

-----------------------------------------------------------------------------
(* The background task: send_bulk_emails (auto) and                        *)
(* send_bulk_emails_single_sender (manual), the dispatch loop of the       *)
(* design (sections 4.1, 4.2 and 4.5).                                     *)

\* quotaRemaining(owner, email): limit - sent-count-today of the active account.
quotaRemaining(rows, user_id, email) ==
    EMAIL_LIMIT_PER_ACCOUNT - SentCountOf(rows, user_id, email)

MutRotateOneEarly(k) ==
    /\ k.sender_mode = "auto"
    /\ \/ k.sender = NoSender
       \/ k.emails_sent_with_current >= EMAIL_LIMIT_PER_ACCOUNT - 1

\* Rotation rule: a new sender is selected when the current sender is unset or
\* emails-sent-with-current has reached the daily limit.
NeedsNewSender(k) ==
    /\ k.sender_mode = "auto"
    /\ \/ k.sender = NoSender
       \/ k.emails_sent_with_current >= EMAIL_LIMIT_PER_ACCOUNT

\* Failing fast at the start: the recipient source cannot be read or lacks the
\* declared email column.
SourceError(k) ==
    IF k.source = "unreadable" THEN "unreadable"
    ELSE IF k.source = "no_column" THEN "no_column"
    ELSE ""

\* DispatchState of the owner at Idle -> Running: counts zeroed, lists cleared;
\* a start that fails fast only marks it not-sending.
StartStatus(status, k, error) ==
    IF error # ""
    THEN [status EXCEPT !.is_sending = FALSE]
    ELSE [FreshStatus EXCEPT !.is_sending = TRUE, !.total_emails = k.total]

\* Idle -> Running in auto mode: fails fast when the source cannot be resolved
\* or no sender account is registered.
send_bulk_emails(c) ==
    LET k == camp[c]
        error == IF SourceError(k) # "" THEN SourceError(k)
                 ELSE IF get_email_accounts(accounts, k.user_id) = {} THEN "no_accounts"
                 ELSE ""
    IN  /\ k.pc = "queued"
        /\ k.sender_mode = "auto"
        /\ camp' = [camp EXCEPT ![c] =
              IF error # ""
              THEN [@ EXCEPT !.pc = "rejected", !.error = error]
              ELSE [@ EXCEPT !.pc = "running"]]
        /\ email_status' = [email_status EXCEPT ![k.user_id] = StartStatus(@, k, error)]
        /\ last' = Op("start", k.user_id, NoSender, k.total, TRUE, 0)
        /\ UNCHANGED <<accounts, next_id, admin_ops, today, email_logs, direct_calls,
                       fallback_used, reset_today, reset_vars>>

\* Idle -> Running in manual mode: resetIfStale, then the pinned sender must be
\* active and owned, and its remaining quota at least the number of recipients.
send_bulk_emails_single_sender(c) ==
    LET k == camp[c]
        rows == reset_daily_counts(accounts, k.user_id, today)
        found == \E r \in rows : /\ r.user_id = k.user_id /\ r.email = k.sender
                                 /\ r.is_active
        left == quotaRemaining(rows, k.user_id, k.sender)
        error == IF SourceError(k) # "" THEN SourceError(k)
                 ELSE IF ~ found THEN "inactive"
                 ELSE IF left < k.total THEN "insufficient_quota"
                 ELSE ""
    IN  /\ k.pc = "queued"
        /\ k.sender_mode = "manual"
        /\ Resets(k.user_id)
        /\ camp' = [camp EXCEPT ![c] =
              IF error = "insufficient_quota"
              THEN [@ EXCEPT !.pc = "rejected", !.error = error,
                             !.remaining = left, !.shortfall = k.total - left]
              ELSE IF error # ""
              THEN [@ EXCEPT !.pc = "rejected", !.error = error]
              ELSE [@ EXCEPT !.pc = "running", !.remaining = left]]
        /\ email_status' = [email_status EXCEPT ![k.user_id] = StartStatus(@, k, error)]
        /\ last' = Op("start", k.user_id, k.sender, k.total, TRUE, 0)
        /\ UNCHANGED <<next_id, admin_ops, today, email_logs, direct_calls,
                       fallback_used, reset_vars>>

\* Per-recipient step, first half: get_available_sender(user_id).  No sender
\* available halts the loop.
select_sender(c) ==
    LET k == camp[c]
    IN  /\ k.pc = "running"
        /\ k.error = ""
        /\ k.todo > 0
        /\ NeedsNewSender(k)
        /\ call_get_available_sender(k.user_id)
        /\ camp' = [camp EXCEPT ![c] =
              IF last'.email = NoSender
              THEN [@ EXCEPT !.error = "no_sender"]
              ELSE [@ EXCEPT !.sender = last'.email, !.emails_sent_with_current = 0]]
        /\ email_status' = [email_status EXCEPT ![k.user_id] =
              IF last'.email = NoSender THEN @
              ELSE [@ EXCEPT !.current_sender = last'.email]]
        /\ UNCHANGED <<email_logs, direct_calls>>

\* DispatchState after the transport call for one recipient.
MutFailureNotListed(status, recipient, sender, ok) ==
    IF ok
    THEN [status EXCEPT !.current_email = recipient, !.current_sender = sender,
                        !.success_emails = Append(@, recipient),
                        !.sent_count = @ + 1,
                        !.sender_rotation[sender] = @ + 1]
    ELSE [status EXCEPT !.current_email = recipient, !.current_sender = sender,
                        !.failed_count = @ + 1]

Recorded(status, recipient, sender, ok) ==
    IF ok
    THEN [status EXCEPT !.current_email = recipient, !.current_sender = sender,
                        !.success_emails = Append(@, recipient),
                        !.sent_count = @ + 1,
                        !.sender_rotation[sender] = @ + 1]
    ELSE [status EXCEPT !.current_email = recipient, !.current_sender = sender,
                        !.failed_emails = Append(@, FailedEntry(recipient, ErrorDetail)),
                        !.failed_count = @ + 1]

\* Per-recipient step, second half: the transport call and its bookkeeping.
\* senders keeps, for each transport call of the campaign, the account it used.
send_one(c, ok) ==
    LET k == camp[c]
        recipient == k.recipients[k.total - k.todo + 1]
    IN  /\ k.pc = "running"
        /\ k.error = ""
        /\ k.todo > 0
        /\ ~ NeedsNewSender(k)
        /\ call_send_email_smtp(k.user_id, k.sender, ok)
        /\ camp' = [camp EXCEPT ![c] =
              [@ EXCEPT !.todo = @ - 1, !.calls = @ + 1,
                        !.emails_sent_with_current = IF ok THEN @ + 1 ELSE @,
                        !.senders = Append(@, k.sender)]]
        /\ email_status' = [email_status EXCEPT ![k.user_id] =
              Recorded(@, recipient, k.sender, ok)]
        /\ UNCHANGED <<email_logs, direct_calls>>

\* The log data assembled from the DispatchState of the owner.
LogData(status, k) ==
    [sender_email |-> status.current_sender, sender_mode |-> k.sender_mode,
     total_emails |-> status.total_emails, sent_count |-> status.sent_count,
     failed_count |-> status.failed_count, success_emails |-> status.success_emails,
     failed_emails |-> status.failed_emails]

\* Running -> Completed after the last recipient or a halt: is-sending is
\* flipped to false and the campaign log is persisted.
complete(c) ==
    LET k == camp[c]
    IN  /\ k.pc = "running"
        /\ k.todo = 0 \/ k.error = "no_sender"
        /\ camp' = [camp EXCEPT ![c].pc = "completed"]
        /\ email_status' = [email_status EXCEPT ![k.user_id].is_sending = FALSE]
        /\ email_logs' = Append(email_logs,
                                save_email_log(k.user_id,
                                               LogData(email_status[k.user_id], k), c))
        /\ last' = Op("complete", k.user_id, k.sender, 0, TRUE, 0)
        /\ UNCHANGED <<accounts, next_id, admin_ops, today, direct_calls, fallback_used,
                       reset_today, reset_vars>>

------------------------------------------------------------------------------
(* Password reset requests.  An OTP is saved for an email, a browser posts *)
(* an email and a code to /verify_otp, and then a new password to          *)
(* /reset_password.  verify_otp reads the row and marks it in two          *)
(* statements, between which other requests may run.                       *)

AuthOp(op, b, email, otp, ok) ==
    [op |-> op, session |-> b, email |-> email, otp |-> otp, ok |-> ok]

\* Time passes.
Tick ==
    /\ now < MaxNow
    /\ now' = now + 1
    /\ UNCHANGED <<last, password_reset_otp, otp_seq, session, verifying, saving,
                   password_hash>>
    /\ UNCHANGED <<accounts, next_id, admin_ops, today, camp, email_status, email_logs,
                   direct_calls, fallback_used, reset_today>>

\* save_otp(email, otp) with a generated code, up to its DELETE statement.
\* The statement sees the committed rows; what it deletes shows at the commit.
save_otp_delete(b, email, otp) ==
    /\ otp_seq <= MaxOtps
    /\ saving[b].pc = "idle"
    /\ saving' = [saving EXCEPT ![b] =
          [pc |-> "deleted", email |-> email, otp |-> otp, id |-> otp_seq,
           deleted |-> RowsToDelete(password_reset_otp, email)]]
    /\ otp_seq' = otp_seq + 1
    /\ last' = AuthOp("save_otp_delete", b, NoEmail, "", TRUE)
    /\ UNCHANGED <<password_reset_otp, now, session, verifying, password_hash>>
    /\ UNCHANGED <<accounts, next_id, admin_ops, today, camp, email_status, email_logs,
                   direct_calls, fallback_used, reset_today>>

\* save_otp from expires_at = datetime.now() + timedelta(minutes=10) to
\* conn.commit().
save_otp_insert(b) ==
    /\ saving[b].pc = "deleted"
    /\ password_reset_otp' =
          save_otp(password_reset_otp, saving[b].deleted, saving[b].email,
                   saving[b].otp, saving[b].id, now)
    /\ saving' = [saving EXCEPT ![b] = NotSaving]
    /\ last' = AuthOp("save_otp", b, saving[b].email, saving[b].otp, TRUE)
    /\ UNCHANGED <<otp_seq, now, session, verifying, password_hash>>
    /\ UNCHANGED <<accounts, next_id, admin_ops, today, camp, email_status, email_logs,
                   direct_calls, fallback_used, reset_today>>

\* verify_otp_submit, up to the expiry check of verify_otp: 'Invalid OTP' when
\* no unused row matches, 'OTP has expired' when now is past expires_at.
verify_otp_select(b, email, otp) ==
    LET found == SelectUnused(password_reset_otp, email, otp)
        rejected == found = {} \/ now > Newest(found).expires_at
    IN  /\ verifying[b].pc = "idle"
        /\ verifying' = [verifying EXCEPT ![b] =
              IF rejected THEN NotVerifying
              ELSE [pc |-> "selected", email |-> email, otp |-> otp,
                    id |-> Newest(found).id]]
        /\ last' = IF rejected THEN AuthOp("verify_otp", b, email, otp, FALSE)
                    ELSE AuthOp("verify_otp_select", b, NoEmail, "", TRUE)
        /\ UNCHANGED <<password_reset_otp, otp_seq, now, session, saving,
                       password_hash>>
        /\ UNCHANGED <<accounts, next_id, admin_ops, today, camp, email_status,
                       email_logs, direct_calls, fallback_used, reset_today>>

\* verify_otp from the UPDATE on, and verify_otp_submit after its success:
\* session['reset_email'] = email, session['otp_verified'] = True.
verify_otp_mark(b) ==
    /\ verifying[b].pc = "selected"
    /\ password_reset_otp' = mark_used(password_reset_otp, verifying[b].id)
    /\ session' = [session EXCEPT ![b] =
                      [reset_email |-> verifying[b].email, otp_verified |-> TRUE]]
    /\ verifying' = [verifying EXCEPT ![b] = NotVerifying]
    /\ last' = AuthOp("verify_otp", b, NoEmail, "", TRUE)
    /\ UNCHANGED <<otp_seq, now, saving, password_hash>>
    /\ UNCHANGED <<accounts, next_id, admin_ops, today, camp, email_status, email_logs,
                   direct_calls, fallback_used, reset_today>>

MutPopNothing(s) == s

\* session.pop('reset_email', None); session.pop('otp_verified', None)
pop_reset(s) == [s EXCEPT !.reset_email = NoEmail, !.otp_verified = FALSE]

\* reset_user_password: UPDATE users SET password_hash = %s
\* WHERE email = %s AND is_active = TRUE; cursor.rowcount > 0.  The salted hash
\* written differs from the one stored.
reset_user_password(email) == email \in ActiveEmails

\* POST /reset_password.  valid: both password fields given, equal and of at
\* least 6 characters.
reset_password(b, valid) ==
    LET email == session[b].reset_email
        allowed == session[b].otp_verified /\ email # NoEmail
        success == allowed /\ valid /\ reset_user_password(email)
    IN  /\ password_hash' = IF success
                            THEN [password_hash EXCEPT ![email] = 1 - @]
                            ELSE password_hash
        /\ session' = IF success
                      THEN [session EXCEPT ![b] = pop_reset(session[b])]
                      ELSE session
        /\ last' = AuthOp("reset_password", b, NoEmail, "", success)
        /\ UNCHANGED <<password_reset_otp, otp_seq, now, verifying, saving>>
        /\ UNCHANGED <<accounts, next_id, admin_ops, today, camp, email_status,
                       email_logs, direct_calls, fallback_used, reset_today>>

PasswordReset ==
    \/ Tick
    \/ \E b \in Sessions, e \in Emails, o \in Otps : save_otp_delete(b, e, o)
    \/ \E b \in Sessions : save_otp_insert(b)
    \/ \E b \in Sessions, e \in Emails, o \in Otps : verify_otp_select(b, e, o)
    \/ \E b \in Sessions : verify_otp_mark(b)
    \/ \E b \in Sessions, valid \in BOOLEAN : reset_password(b, valid)

------------------------------------------------------------------------------
(* The process stops while a background task is queued or running and is   *)
(* started again.  The tasks are daemon threads and end with the process;  *)
(* email_status is a dictionary of the process and is empty in the new     *)
(* one, where get_user_email_status creates fresh entries; the database    *)
(* keeps its rows.                                                          *)

process_stop ==
    /\ \E c \in Campaigns : camp[c].pc \in {"queued", "running"}
    /\ camp' = [c \in Campaigns |->
                  IF camp[c].pc \in {"queued", "running"}
                  THEN [camp[c] EXCEPT !.pc = "stopped"]
                  ELSE camp[c]]
    /\ email_status' = [u \in Users |-> FreshStatus]
    /\ last' = Op("process_stop", 0, NoSender, 0, TRUE, 0)
    /\ UNCHANGED <<accounts, next_id, admin_ops, today, email_logs, direct_calls,
                   fallback_used, reset_today, reset_vars>>

-----------------------------------------------------------------------------
(* The program: requests, account management, polling and background tasks. *)

Requests ==
    \E c \in Campaigns, u \in Users, m \in {"auto", "manual"},
       e \in Mailboxes \cup {NoSender}, f \in Sources,
       rs \in RecipientLists \cup {<<>>} :
       send_emails(c, u, m, e, f, rs)

Threads ==
    \/ \E c \in Campaigns : send_bulk_emails(c)
    \/ \E c \in Campaigns : send_bulk_emails_single_sender(c)
    \/ \E c \in Campaigns : select_sender(c)
    \/ \E c \in Campaigns, ok \in BOOLEAN : send_one(c, ok)
    \/ \E c \in Campaigns : complete(c)

Admin ==
    \/ \E u \in Users, e \in Mailboxes : add_email_account(u, e)
    \/ \E u \in Users, id \in 1..(next_id - 1), e \in Mailboxes, a \in BOOLEAN :
          update_email_account(u, id, e, a)
    \/ \E u \in Users, id \in 1..(next_id - 1) : delete_email_account(u, id)

Next ==
    \/ Midnight
    \/ Admin
    \/ \E u \in Users : get_account_stats(u)
    \/ Requests
    \/ Threads
    \/ process_stop
    \/ PasswordReset

Spec == Init /\ [][Next]_vars

-----------------------------------------------------------------------------
(* The quota store on its own: its operations called in any order with any *)
(* arguments, as any number of dispatch loops and pages may call them.     *)

SelectSender(user_id) ==
    /\ direct_calls < MaxDirectCalls
    /\ direct_calls' = direct_calls + 1
    /\ call_get_available_sender(user_id)
    /\ UNCHANGED <<camp, email_status, email_logs>>

SendEmail(user_id, sender_email, ok) ==
    /\ direct_calls < MaxDirectCalls
    /\ direct_calls' = direct_calls + 1
    /\ call_send_email_smtp(user_id, sender_email, ok)
    /\ UNCHANGED <<camp, email_status, email_logs>>

NextStore ==
    \/ Midnight
    \/ Admin
    \/ \E u \in Users : get_account_stats(u)
    \/ \E u \in Users : SelectSender(u)
    \/ \E u \in Users, e \in Mailboxes, ok \in BOOLEAN : SendEmail(u, e, ok)

SpecStore == Init /\ [][NextStore]_vars

-----------------------------------------------------------------------------
(* The campaigns on their own: requests and their background threads over  *)
(* one populated store.  User 1 holds a@x (14 sent, last reset yesterday)  *)
(* and b@x (at the limit), user 2 holds a@x (14 sent today).               *)

LoopAccounts ==
    {Row(1, 1, "a@x", TRUE, EMAIL_LIMIT_PER_ACCOUNT - 1, 0),
     Row(2, 1, "b@x", TRUE, EMAIL_LIMIT_PER_ACCOUNT, 1),
     Row(3, 2, "a@x", TRUE, EMAIL_LIMIT_PER_ACCOUNT - 1, 1)}

InitLoop ==
    /\ Init
    /\ accounts = LoopAccounts

NextLoop == Requests \/ Threads

SpecLoop == InitLoop /\ [][NextLoop]_vars

\* The campaigns with threads that are scheduled and whose transport calls and
\* delays return: a thread that can take a step eventually takes one.
RequestsLive ==
    \/ \E u \in Users, m \in {"auto", "manual"}, rs \in RecipientLists :
          send_emails(1, u, m, IF m = "manual" THEN "a@x" ELSE NoSender,
                      "ok", rs)
    \/ \E u \in Users :
          send_emails(2, u, "auto", NoSender, "ok", RecipientList(1))

NextLive == RequestsLive \/ Threads

SpecLive == InitLoop /\ [][NextLive]_vars /\ WF_vars(Threads)

\* The campaigns with the calendar.
NextDay ==
    \/ Midnight
    \/ Requests
    \/ Threads

SpecDay == InitLoop /\ [][NextDay]_vars

-----------------------------------------------------------------------------
(* Rotation: an auto campaign over a batch one longer than the daily limit, *)
(* so that a second selection falls inside the batch, followed by a request *)
(* for a single recipient, while accounts are managed.  Every transport    *)
(* call succeeds.                                                          *)

LongBatch == EMAIL_LIMIT_PER_ACCOUNT + 1

RequestsLong ==
    \/ \E u \in Users :
          send_emails(1, u, "auto", NoSender, "ok", RecipientList(LongBatch))
    \/ \E u \in Users :
          send_emails(2, u, "auto", NoSender, "ok", RecipientList(1))

ThreadsLong ==
    \/ \E c \in Campaigns : send_bulk_emails(c)
    \/ \E c \in Campaigns : select_sender(c)
    \/ \E c \in Campaigns : send_one(c, TRUE)
    \/ \E c \in Campaigns : complete(c)

NextRotation == RequestsLong \/ ThreadsLong \/ Admin

SpecRotation == InitLoop /\ [][NextRotation]_vars

------------------------------------------------------------------------------
(* Rotation with the accounts as they are: the long auto batch and the     *)
(* single recipient of the second request, whose transport call may fail.  *)

ThreadsRotate ==
    \/ \E c \in Campaigns : send_bulk_emails(c)
    \/ \E c \in Campaigns : select_sender(c)
    \/ send_one(1, TRUE)
    \/ \E ok \in BOOLEAN : send_one(2, ok)
    \/ \E c \in Campaigns : complete(c)

NextRotate == RequestsLong \/ ThreadsRotate

SpecRotate == InitLoop /\ [][NextRotate]_vars

-----------------------------------------------------------------------------
(* The CC/BCC merge on its own: merge_cc_bcc_lists applied to address      *)
(* strings of up to MaxLen characters, once per behaviour; last records    *)
(* the call.  The two strings are passed as form and default CC and,       *)
(* crosswise, as form and default BCC.                                     *)

Chars == {"a", "b", ",", " "}
Strings(len) == UNION {[1..n -> Chars] : n \in 0..len}

call_merge_cc_bcc_lists(form_cc, form_bcc, default_cc, default_bcc) ==
    /\ last.op = "init"
    /\ last' = [op |-> "merge", form_cc |-> form_cc, form_bcc |-> form_bcc,
                default_cc |-> default_cc, default_bcc |-> default_bcc,
                merged |-> merge_cc_bcc_lists(form_cc, form_bcc, default_cc, default_bcc)]
    /\ UNCHANGED <<accounts, next_id, admin_ops, today, camp, email_status, email_logs,
                   direct_calls, fallback_used, reset_today, reset_vars>>

NextMerge ==
    \E x \in Strings(MaxLen), y \in Strings(MaxLen - 2) :
        call_merge_cc_bcc_lists(x, y, y, x)

SpecMerge == InitLoop /\ [][NextMerge]_vars

------------------------------------------------------------------------------
(* Reading a recipient sheet on its own: read_excel_file and the filtering  *)
(* applied to a sheet of two columns, exactly one of them headed by the     *)
(* email column, and up to MaxRows rows, once per behaviour.                *)

EmailColumn == <<"e">>
HeaderCells == {None, EmailColumn, <<"n">>}
Cells == {None, <<" ">>, <<"x">>}
Sheets ==
    {[header |-> h, rows |-> rs] :
        h \in {g \in [1..2 -> HeaderCells] :
                  Cardinality({i \in 1..2 : g[i] = EmailColumn}) = 1},
        rs \in UNION {[1..n -> [1..2 -> Cells]] : n \in 0..MaxRows}}

call_read_excel_file(sheet) ==
    /\ last.op = "init"
    /\ last' = [op |-> "read", sheet |-> sheet,
                total_emails |-> total_emails(sheet, EmailColumn)]
    /\ UNCHANGED <<accounts, next_id, admin_ops, today, camp, email_status, email_logs,
                   direct_calls, fallback_used, reset_today, reset_vars>>

NextSheet == \E sheet \in Sheets : call_read_excel_file(sheet)

SpecSheet == InitLoop /\ [][NextSheet]_vars

------------------------------------------------------------------------------
(* The readers of the quota: one request in either mode with its thread,   *)
(* the statistics page and the calendar.                                    *)

RequestsQuota ==
    \E u \in Users, m \in {"auto", "manual"}, e \in Mailboxes \cup {NoSender},
       rs \in RecipientLists :
       send_emails(1, u, m, e, "ok", rs)

NextQuota ==
    \/ Midnight
    \/ \E u \in Users : get_account_stats(u)
    \/ RequestsQuota
    \/ Threads

SpecQuota == InitLoop /\ [][NextQuota]_vars

------------------------------------------------------------------------------
(* Campaigns in a process that may stop at any time while a task is active. *)

NextStop == RequestsLive \/ Threads \/ process_stop

SpecStop == InitLoop /\ [][NextStop]_vars

------------------------------------------------------------------------------
(* Persisting a log on its own: save_email_log applied once to the data of *)
(* a campaign with up to MaxBatch successes and failures, with any one of  *)
(* its statements raising or none.                                         *)

FailedList(n) == [i \in 1..n |-> FailedEntry(Address(i), ErrorDetail)]

call_save_email_log(user_id, log_data, fail_at) ==
    /\ last.op = "init"
    /\ email_logs' = save_email_log_in(email_logs, user_id, log_data, 1, fail_at)
    /\ last' = [op |-> "save", user_id |-> user_id, log_data |-> log_data,
                fail_at |-> fail_at]
    /\ UNCHANGED <<accounts, next_id, admin_ops, today, camp, email_status,
                   direct_calls, fallback_used, reset_today, reset_vars>>

NextSave ==
    \E u \in Users, m \in {"auto", "manual"}, e \in Mailboxes,
       s \in 0..MaxBatch, f \in 0..MaxBatch, fail_at \in 0..(2 * MaxBatch + 2) :
        /\ fail_at <= s + f + 2
        /\ call_save_email_log(u,
              [sender_email |-> e, sender_mode |-> m, total_emails |-> s + f,
               sent_count |-> s, failed_count |-> f,
               success_emails |-> RecipientList(s), failed_emails |-> FailedList(f)],
              fail_at)

SpecSave == InitLoop /\ [][NextSave]_vars

------------------------------------------------------------------------------
(* The password reset on its own.                                          *)

OneCode == CHOOSE o \in Otps : TRUE
OtherCode == CHOOSE o \in Otps : o # OneCode
OneEmail == CHOOSE e \in Emails : TRUE

\* Issuing and verifying codes while time passes.
\* The first browser asks for any user and is sent one code, the second asks
\* for one user and is sent the other code; the first tries any code for any
\* user, the second the code it was sent.
NextOtp ==
    \/ Tick
    \/ \E e \in Emails : save_otp_delete(1, e, OneCode)
    \/ save_otp_delete(2, OneEmail, OtherCode)
    \/ \E b \in Sessions : save_otp_insert(b)
    \/ \E e \in Emails, o \in Otps : verify_otp_select(1, e, o)
    \/ verify_otp_select(2, OneEmail, OtherCode)
    \/ \E b \in Sessions : verify_otp_mark(b)

SpecOtp == InitLoop /\ [][NextOtp]_vars

\* Verifying and setting passwords, with one code in use.

NextReset ==
    \/ \E b \in Sessions, e \in Emails : save_otp_delete(b, e, OneCode)
    \/ \E b \in Sessions : save_otp_insert(b)
    \/ \E b \in Sessions, e \in Emails : verify_otp_select(b, e, OneCode)
    \/ \E b \in Sessions : verify_otp_mark(b)
    \/ \E b \in Sessions, valid \in BOOLEAN : reset_password(b, valid)

SpecReset == InitLoop /\ [][NextReset]_vars

-----------------------------------------------------------------------------
(* Properties.                                                             *)

\* The row of (user_id, email) named by the last step.
LastRows == {r \in accounts : r.user_id = last.user_id /\ r.email = last.email}

\* C1: as long as the all-accounts-exhausted fallback of auto selection has
\* not been taken, every account's sent_count is at most the daily limit.
C1_SentCountWithinLimit ==
    ~ fallback_used =>
        \A r \in accounts : r.sent_count <= EMAIL_LIMIT_PER_ACCOUNT

\* C2: a manual campaign whose pinned account has less remaining quota than
\* the batch has recipients is rejected with the shortfall requested - remaining
\* and makes no transport call.
C2_ManualShortfallRejected ==
    \A c \in Campaigns :
        LET k == camp[c]
        IN  (/\ k.sender_mode = "manual"
             /\ k.pc \in {"rejected", "running", "completed"}
             /\ k.error \in {"", "daily_limit", "insufficient_quota"}
             /\ k.remaining < k.total)
            => (/\ k.pc = "rejected"
                /\ k.shortfall = k.total - k.remaining
                /\ k.calls = 0)

\* C3: a successful transport call for (owner, email) adds exactly 1 to the
\* sent_count of that one account and changes no other row; a failed call
\* changes no row.
C3_SendCountsOnce ==
    [][last'.op = "send" =>
        LET hit == {r \in accounts : r.user_id = last'.user_id
                                     /\ r.email = last'.email}
        IN  IF last'.ok
            THEN /\ Cardinality(hit) <= 1
                 /\ accounts \ accounts' = hit
                 /\ accounts' \ accounts =
                        {[r EXCEPT !.sent_count = r.sent_count + 1] : r \in hit}
            ELSE accounts' = accounts]_vars

C3_Witness ==
    /\ last.op = "send"
    /\ last.ok
    /\ \E r \in LastRows : r.sent_count >= 1

\* C4: a step performed for one owner changes no account row of another owner,
\* also when both owners have registered the same mailbox.
C4_OwnerScoped ==
    [][\A u \in Users :
        u # last'.user_id =>
            {r \in accounts : r.user_id = u} = {r \in accounts' : r.user_id = u}]_vars

C4_Witness ==
    /\ last.op = "send"
    /\ last.ok
    /\ LastRows # {}
    /\ \E r \in accounts : r.user_id # last.user_id /\ r.email = last.email

\* C5: when some active account of the owner is below the limit, auto
\* selection returns the active account of that owner with the smallest
\* sent_count among those below the limit, the earliest created among equals.
C5_SelectsLeastUsed ==
    (/\ last.op = "select"
     /\ \E s \in accounts : /\ s.user_id = last.user_id /\ s.is_active
                            /\ s.sent_count < EMAIL_LIMIT_PER_ACCOUNT)
    => \E r \in LastRows :
          /\ r.is_active
          /\ r.sent_count < EMAIL_LIMIT_PER_ACCOUNT
          /\ \A s \in accounts :
                (/\ s.user_id = last.user_id /\ s.is_active
                 /\ s.sent_count < EMAIL_LIMIT_PER_ACCOUNT)
                => \/ r.sent_count < s.sent_count
                   \/ r.sent_count = s.sent_count /\ r.created_at <= s.created_at

C5_Witness ==
    /\ last.op = "select"
    /\ \E r \in LastRows : \E s \in accounts :
          /\ s.user_id = last.user_id /\ s.is_active
          /\ s.sent_count < EMAIL_LIMIT_PER_ACCOUNT
          /\ s.created_at < r.created_at
          /\ r.sent_count < s.sent_count

\* C6: when the owner has active accounts and all of them are at or above the
\* limit, auto selection returns the earliest-created active account.
C6_FallbackEarliestCreated ==
    (/\ last.op = "select"
     /\ \E s \in accounts : s.user_id = last.user_id /\ s.is_active
     /\ \A s \in accounts :
           (s.user_id = last.user_id /\ s.is_active)
           => s.sent_count >= EMAIL_LIMIT_PER_ACCOUNT)
    => \E r \in LastRows :
          /\ r.is_active
          /\ \A s \in accounts :
                (s.user_id = last.user_id /\ s.is_active)
                => r.created_at <= s.created_at

C6_Witness ==
    /\ last.op = "select"
    /\ last.email # NoSender
    /\ Cardinality({s \in accounts : s.user_id = last.user_id /\ s.is_active}) >= 2
    /\ \A s \in accounts :
          (s.user_id = last.user_id /\ s.is_active)
          => s.sent_count >= EMAIL_LIMIT_PER_ACCOUNT

\* C7: auto selection signals "no sender available" exactly when the owner
\* has no active account; inactive accounts and other owners' accounts do not
\* count.
C7_NoSenderIffNoActive ==
    last.op = "select" =>
        (last.email = NoSender
            <=> ~ \E s \in accounts : s.user_id = last.user_id /\ s.is_active)

C7_Witness ==
    /\ last.op = "select"
    /\ last.email = NoSender
    /\ \E s \in accounts : s.user_id = last.user_id /\ ~ s.is_active
    /\ \E s \in accounts : s.user_id # last.user_id /\ s.is_active

\* C8: a daily reset for an owner on day D sets sent_count = 0 and
\* last_reset = D on every account of the owner last reset before D, and
\* keeps every account of the owner already reset on D as it is.
C8_ResetStaleOnly ==
    [][last'.op \in {"stats", "select"} =>
        \A r \in accounts :
            r.user_id = last'.user_id =>
                /\ r.last_reset < today =>
                      \E q \in accounts' : /\ q.id = r.id /\ q.sent_count = 0
                                           /\ q.last_reset = today
                /\ r.last_reset = today =>
                      \E q \in accounts' : /\ q.id = r.id
                                           /\ q.sent_count = r.sent_count
                                           /\ q.last_reset = today]_vars

C8_Witness ==
    /\ last.op = "stats"
    /\ last.n > 0
    /\ \E r \in accounts : /\ r.user_id = last.user_id /\ r.sent_count = 0
                           /\ r.last_reset = today
    /\ \E r \in accounts : /\ r.user_id = last.user_id /\ r.sent_count > 0
                           /\ r.last_reset = today

\* C9: a second daily reset for the same owner on the same day changes no
\* account; sends recorded since the first one are kept.
C9_ResetIdempotent ==
    [][(/\ last'.op \in {"stats", "select"}
        /\ reset_today[last'.user_id] >= 1)
       => accounts' = accounts]_vars

C9_Witness ==
    /\ last.op = "stats"
    /\ last.again = 2
    /\ today > 1
    /\ \E r \in accounts : /\ r.user_id = last.user_id
                           /\ r.sent_count > 0
                           /\ r.last_reset = today

\* C10: every increment of sent_count is applied to a counter whose
\* last_reset is the current day, also in a campaign that runs across midnight.
C10_IncrementOnFreshCounter ==
    (last.op = "send" /\ last.ok) =>
        \A r \in LastRows : r.last_reset = today

\* The email_logs rows persisted for campaign c.
LogsOf(c) == {i \in 1..Len(email_logs) : email_logs[i].log_filename = c}

\* The set of elements of a sequence.
Range(seq) == {seq[i] : i \in 1..Len(seq)}

\* C11: for every completed campaign, the number of outcome rows persisted
\* with its log equals sent_count + failed_count of that log, and the set of
\* recipient addresses in those rows is the set of valid recipients of the batch.
C11_OutcomeRowsMatchBatch ==
    \A c \in Campaigns :
        camp[c].pc = "completed" =>
            \A i \in LogsOf(c) :
                /\ Len(email_logs[i].rows)
                     = email_logs[i].sent_count + email_logs[i].failed_count
                /\ {row.recipient_email : row \in Range(email_logs[i].rows)}
                     = Range(camp[c].recipients)

\* The trimmed non-empty comma-separated entries of s, as a set: every maximal
\* comma-free piece s[p+1..q-1], cut at its first and last non-blank character.
Entries(s) ==
    LET cuts == {0, Len(s) + 1} \cup {i \in 1..Len(s) : s[i] = ","}
    IN  {SubSeq(s, a, b) :
            <<a, b>> \in {ab \in (1..Len(s)) \X (1..Len(s)) :
                /\ ab[1] <= ab[2]
                /\ s[ab[1]] # " " /\ s[ab[2]] # " "
                /\ \E p \in cuts, q \in cuts :
                      /\ p < ab[1] /\ ab[2] < q
                      /\ \A i \in (p + 1)..(q - 1) :
                            /\ s[i] # ","
                            /\ (i < ab[1] \/ i > ab[2]) => s[i] = " "}}

\* Position of the first occurrence of e in the sequence seq.
FirstIndex(seq, e) == CHOOSE i \in 1..Len(seq) : seq[i] = e /\ \A j \in 1..(i - 1) : seq[j] # e

\* merged is the ordered-unique concatenation of the entries of form, then of
\* default.
OrderedUniqueConcat(merged, form, default) ==
    LET both == parse_email_list(form) \o parse_email_list(default)
    IN  /\ \A i, j \in 1..Len(merged) : i # j => merged[i] # merged[j]
        /\ \A i \in 1..Len(merged) : merged[i] # <<>>
        /\ Range(merged) = Entries(form) \cup Entries(default)
        /\ Range(parse_email_list(form)) = Entries(form)
        /\ Range(parse_email_list(default)) = Entries(default)
        /\ \A i \in 1..Len(parse_email_list(form)) :
              FirstIndex(both, parse_email_list(form)[i]) <= Len(parse_email_list(form))
        /\ \A i, j \in 1..Len(merged) :
              i < j => FirstIndex(both, merged[i]) < FirstIndex(both, merged[j])

\* C12: the merged CC list is the ordered-unique concatenation of the trimmed
\* non-empty entries of the form CC string followed by those of the default CC
\* string, and the merged BCC list likewise from the two BCC strings; neither
\* holds a duplicate or an empty entry.
C12_MergeOrderedUnique ==
    last.op = "merge" =>
        /\ OrderedUniqueConcat(last.merged.cc, last.form_cc, last.default_cc)
        /\ OrderedUniqueConcat(last.merged.bcc, last.form_bcc, last.default_bcc)

C12_Witness ==
    /\ last.op = "merge"
    /\ Len(last.merged.cc) = 2
    /\ Len(parse_email_list(last.form_cc)) = 2
    /\ Len(parse_email_list(last.default_cc)) = 1
    /\ last.merged.cc[1] # parse_email_list(last.default_cc)[1]
    /\ \E i \in 1..Len(last.form_cc) : last.form_cc[i] = ","

\* The setup errors: source unreadable, email column missing, no sender
\* account, pinned sender inactive or not owned, pinned sender short of quota.
SetupErrors ==
    {"unreadable", "no_column", "no_accounts", "inactive", "insufficient_quota",
     "daily_limit"}

\* C13: a request that ends in a setup error was answered with that error by
\* the handler itself (no background thread was started for it), never ran,
\* made no transport call and has no campaign log.
C13_SetupErrorsSynchronous ==
    \A c \in Campaigns :
        camp[c].error \in SetupErrors =>
            /\ ~ camp[c].started
            /\ camp[c].pc = "rejected"
            /\ camp[c].calls = 0
            /\ LogsOf(c) = {}

\* C14: no two dispatch loops of the same owner are Running at the same time.
C14_OneLoopPerOwner ==
    \A c \in Campaigns, b \in Campaigns :
        (c # b /\ camp[c].pc = "running" /\ camp[b].pc = "running")
        => camp[c].user_id # camp[b].user_id

\* C15: a failed transport call for a recipient appends the entry
\* "recipient: error-detail" to failed_emails and adds 1 to failed_count; the
\* loop stays Running on the same sender, with no new selection due, and its
\* next recipient is the following one of the batch.
C15_TransportFailureNonFatal ==
    [][(last'.op = "send" /\ ~ last'.ok) =>
        \E c \in Campaigns :
            LET k == camp[c]
                recipient == k.recipients[k.calls + 1]
            IN  /\ camp'[c] # k
                /\ \A b \in Campaigns \ {c} : camp'[b] = camp[b]
                /\ email_status'[k.user_id].failed_emails
                     = Append(email_status[k.user_id].failed_emails,
                              recipient \o <<":", " ">> \o ErrorDetail)
                /\ email_status'[k.user_id].failed_count
                     = email_status[k.user_id].failed_count + 1
                /\ email_status'[k.user_id].success_emails
                     = email_status[k.user_id].success_emails
                /\ camp'[c].pc = "running"
                /\ camp'[c].error = ""
                /\ camp'[c].sender = k.sender
                /\ ~ NeedsNewSender(camp'[c])
                /\ camp'[c].calls = k.calls + 1
                /\ camp'[c].todo = k.todo - 1]_vars

C15_Witness ==
    \E c \in Campaigns :
        /\ camp[c].calls = 2
        /\ camp[c].sender_mode = "auto"
        /\ last.op = "send" /\ last.ok
        /\ email_status[camp[c].user_id].failed_emails
             = <<camp[c].recipients[1] \o <<":", " ">> \o ErrorDetail>>
        /\ email_status[camp[c].user_id].success_emails = <<camp[c].recipients[2]>>

\* Number of occurrences of e in the sequence seq.
Count(seq, e) == Cardinality({i \in 1..Len(seq) : seq[i] = e})

\* The address under which save_email_log stores a failed recipient.
RowAddress(recipient) == strip(split_once(FailedEntry(recipient, ErrorDetail), ":")[1])

\* Every result of the recipients campaign c has processed is in the status
\* entry of its owner while c is Running, and in the rows of its log once c
\* is Completed.
ResultsKept(c) ==
    LET k == camp[c]
        st == email_status[k.user_id]
        processed == SubSeq(k.recipients, 1, k.calls)
    IN  /\ k.pc = "running" =>
              \A a \in Range(processed) :
                  Count(st.success_emails, a)
                    + Count(st.failed_emails, FailedEntry(a, ErrorDetail))
                  >= Count(processed, a)
        /\ k.pc = "completed" =>
              \A i \in LogsOf(c) : \A a \in Range(processed) :
                  Cardinality({j \in 1..Len(email_logs[i].rows) :
                      \/ /\ email_logs[i].rows[j].status = "success"
                         /\ email_logs[i].rows[j].recipient_email = a
                      \/ /\ email_logs[i].rows[j].status = "failed"
                         /\ email_logs[i].rows[j].recipient_email = RowAddress(a)})
                  >= Count(processed, a)

\* C16: once sender selection has reported "no sender available" to an auto
\* campaign, the campaign processes no further recipient, and every result it
\* recorded before is kept in the status entry and persisted with its log.
C16_HaltKeepsResults ==
    [][\A c \in Campaigns :
          /\ camp[c].error = "no_sender" =>
                /\ camp'[c].calls = camp[c].calls
                /\ camp'[c].todo = camp[c].todo
          /\ camp'[c].error = "no_sender" => ResultsKept(c)']_vars

RowsWithEmail(sheet) ==
    LET col == CHOOSE i \in 1..Len(sheet.header) :
                  /\ sheet.header[i] = EmailColumn
                  /\ \A j \in 1..Len(sheet.header) :
                        sheet.header[j] = EmailColumn => i <= j
    IN  {r \in 1..Len(sheet.rows) :
            /\ sheet.rows[r][col] # None
            /\ strip(sheet.rows[r][col]) # <<>>}

\* C18: total-emails of a sheet is the number of its rows whose trimmed
\* email column is non-empty.
C18_TotalIsValidRows ==
    last.op = "read" => last.total_emails = Cardinality(RowsWithEmail(last.sheet))

\* The request of slot c is answered in this step after the quota check of the
\* pinned sender.
ManualQuotaCheck(c) ==
    /\ camp[c].pc = "idle"
    /\ camp'[c].pc # "idle"
    /\ camp'[c].sender_mode = "manual"
    /\ camp'[c].error \notin {"no_sender_selected", "inactive", "no_accounts"}

\* The manual loop of slot c reads the quota of its pinned sender in this step.
ManualStart(c) ==
    /\ camp[c].pc = "queued"
    /\ camp'[c].pc # "queued"
    /\ camp'[c].sender_mode = "manual"

\* C19: a step that selects a sender, reads the statistics or checks the
\* quota of a pinned sender leaves no account of that owner with a last_reset
\* before today: the rows it reads were reset first.
C19_ReadsAfterReset ==
    [][/\ (last'.op \in {"select", "stats"} /\ last' # last)
            => StaleRows(accounts', last'.user_id, today') = {}
       /\ \A c \in Campaigns :
            (ManualQuotaCheck(c) \/ ManualStart(c))
              => StaleRows(accounts', camp'[c].user_id, today') = {}]_vars

\* An owner with a stale account had it reset by a selection, a statistics
\* read or a manual quota check.
C19_Witness ==
    /\ last.op \in {"select", "stats", "send_emails"}
    /\ last.op = "send_emails" => \E c \in Campaigns : /\ camp[c].sender_mode = "manual"
                                                      /\ camp[c].pc = "queued"
    /\ reset_today[last.user_id] = 1
    /\ today > 1
    /\ \E r \in accounts : /\ r.user_id = last.user_id
                           /\ r.last_reset = today
                           /\ r.sent_count = 0

Selects(c) ==
    /\ camp[c].pc = "running"
    /\ last'.op = "select"
    /\ camp'[c] # camp[c]

\* Campaign c makes a transport call in this step.
Sends(c) ==
    /\ camp[c].pc = "running"
    /\ camp'[c].calls = camp[c].calls + 1

\* C21: an auto campaign asks for a sender exactly when its sender is unset
\* or it has sent the daily limit with the current one; every transport call
\* is made with the current sender, which a call does not change.
C21_RotationRule ==
    [][\A c \in Campaigns :
          /\ Selects(c)
               => /\ camp[c].sender_mode = "auto"
                  /\ \/ camp[c].sender = NoSender
                     \/ camp[c].emails_sent_with_current >= EMAIL_LIMIT_PER_ACCOUNT
          /\ (Sends(c) /\ camp[c].sender_mode = "auto")
               => /\ camp[c].sender # NoSender
                  /\ camp[c].emails_sent_with_current < EMAIL_LIMIT_PER_ACCOUNT
                  /\ last'.email = camp[c].sender
                  /\ camp'[c].sender = camp[c].sender]_vars

\* A second selection inside one batch, after the daily limit was sent with
\* the first sender.
C21_Witness ==
    \E c \in Campaigns :
        /\ camp[c].pc = "running"
        /\ last.op = "select"
        /\ camp[c].calls = EMAIL_LIMIT_PER_ACCOUNT
        /\ camp[c].sender # NoSender
        /\ camp[c].emails_sent_with_current = 0

\* Campaign c ran alone for its owner, every transport call succeeded, and
\* its log holds one row per recipient in the order of the recipients.
LoggedInOrder(c) ==
    /\ camp[c].pc = "completed"
    /\ \A b \in Campaigns \ {c} : camp[b].user_id # camp[c].user_id
    /\ Len(camp[c].senders) = camp[c].total
    /\ \A i \in LogsOf(c) :
          /\ Len(email_logs[i].rows) = camp[c].total
          /\ \A j \in 1..camp[c].total :
                /\ email_logs[i].rows[j].status = "success"
                /\ email_logs[i].rows[j].recipient_email = camp[c].recipients[j]

\* C22: every persisted outcome row names as its sender the account used for
\* the transport call to that recipient.
C22_RowSenderIsSenderUsed ==
    \A c \in Campaigns :
        LoggedInOrder(c)
          => \A i \in LogsOf(c) : \A j \in 1..camp[c].total :
                email_logs[i].rows[j].sender_email = camp[c].senders[j]

\* s is a subsequence of t.
RECURSIVE IsSubsequence(_, _)
IsSubsequence(s, t) ==
    IF s = <<>> THEN TRUE
    ELSE IF t = <<>> THEN FALSE
    ELSE IF Head(s) = Head(t) THEN IsSubsequence(Tail(s), Tail(t))
    ELSE IsSubsequence(s, Tail(t))

\* The recipients of campaign c already processed, in order.
Processed(c) == SubSeq(camp[c].recipients, 1, camp[c].calls)

\* C23: while a campaign runs and when it has completed, the recipient last
\* processed is the one at its position in the order of the recipients, and
\* the success and failure lists are subsequences of the recipients
\* processed so far.
C23_ProcessedInOrder ==
    \A c \in Campaigns :
        (camp[c].pc \in {"running", "completed"} /\ LogsOf(c) = {})
          => LET status == email_status[camp[c].user_id]
                 failures == [i \in 1..Len(Processed(c)) |->
                                 FailedEntry(Processed(c)[i], ErrorDetail)]
             IN  /\ camp[c].calls > 0
                      => status.current_email = camp[c].recipients[camp[c].calls]
                 /\ IsSubsequence(status.success_emails, Processed(c))
                 /\ IsSubsequence(status.failed_emails, failures)

\* C24: the sender returned by a selection is registered by that owner and
\* active.
C24_SelectedIsActiveAndOwned ==
    (last.op = "select" /\ last.email # NoSender)
      => /\ LastRows # {}
         /\ \A r \in LastRows : r.is_active /\ r.user_id = last.user_id

\* A selection from the fallback branch while the owner has an inactive
\* account below the limit and another owner has registered the same mailbox.
C24_Witness ==
    /\ last.op = "select"
    /\ last.email # NoSender
    /\ \A s \in accounts :
          (s.user_id = last.user_id /\ s.is_active)
            => s.sent_count >= EMAIL_LIMIT_PER_ACCOUNT
    /\ \E s \in accounts : /\ s.user_id = last.user_id /\ ~ s.is_active
                           /\ s.sent_count < EMAIL_LIMIT_PER_ACCOUNT
    /\ \E s \in accounts : s.user_id # last.user_id /\ s.is_active

\* The successful sends of campaign c from account r.  A campaign of at most
\* the daily limit of recipients uses one sender.
SendsFrom(c, r) ==
    IF camp[c].user_id = r.user_id /\ camp[c].sender = r.email
    THEN camp[c].emails_sent_with_current
    ELSE 0

RECURSIVE SendsOfAll(_, _)
SendsOfAll(cs, r) ==
    IF cs = {} THEN 0
    ELSE LET c == CHOOSE x \in cs : TRUE
         IN  SendsFrom(c, r) + SendsOfAll(cs \ {c}, r)

\* The counter of account r before the sends of the campaigns: its first
\* value, or 0 once its daily reset has run.
CountBeforeSends(r) ==
    LET first == CHOOSE q \in LoopAccounts : q.id = r.id
    IN  IF r.last_reset = first.last_reset THEN first.sent_count ELSE 0

\* C25: the counter of every account is its value before the sends plus the
\* number of successful sends made from it by all campaigns, however their
\* steps interleave.
C25_NoIncrementLost ==
    \A r \in accounts :
        r.sent_count = CountBeforeSends(r) + SendsOfAll(Campaigns, r)

\* Two campaigns of one owner have each sent from the same account.
C25_Witness ==
    \E r \in accounts :
        /\ \A c \in Campaigns : SendsFrom(c, r) >= 1
        /\ \E c \in Campaigns : camp[c].pc = "running"
        /\ r.sent_count >= CountBeforeSends(r) + 2

RECURSIVE RotationSum(_, _)
RotationSum(rotation, es) ==
    IF es = {} THEN 0
    ELSE LET e == CHOOSE x \in es : TRUE
         IN  rotation[e] + RotationSum(rotation, es \ {e})

\* C26: in every state the DispatchState of every owner has sent_count equal
\* to the length of the success list, failed_count equal to the length of the
\* failure list, a rotation map summing to sent_count, and sent_count +
\* failed_count at most total_emails; the snapshot logged by a campaign that
\* completed without a halt has sent_count + failed_count = total_emails.
C26_StatusCountsConsistent ==
    /\ \A u \in Users :
          LET status == email_status[u]
          IN  /\ status.sent_count = Len(status.success_emails)
              /\ status.failed_count = Len(status.failed_emails)
              /\ RotationSum(status.sender_rotation, Mailboxes) = status.sent_count
              /\ status.sent_count + status.failed_count <= status.total_emails
    /\ \A c \in Campaigns :
          (camp[c].pc = "completed" /\ camp[c].error = "")
            => \A i \in LogsOf(c) :
                  email_logs[i].sent_count + email_logs[i].failed_count
                    = email_logs[i].total_emails

\* C27: a call of save_email_log either stores the log row with one outcome
\* row per success and per failure entry, when no statement raises, or
\* stores nothing, when one does; it changes no account.
C27_SaveAllOrNothing ==
    [][last'.op = "save"
         => /\ accounts' = accounts
            /\ IF last'.fail_at = 0
               THEN /\ Len(email_logs') = Len(email_logs) + 1
                    /\ SubSeq(email_logs', 1, Len(email_logs)) = email_logs
                    /\ LET log == email_logs'[Len(email_logs')]
                       IN  /\ log.user_id = last'.user_id
                           /\ Len(log.rows) = Len(last'.log_data.success_emails)
                                                + Len(last'.log_data.failed_emails)
               ELSE email_logs' = email_logs]_vars

\* The second outcome row raised: the log row and the first outcome row had
\* been inserted, and nothing is stored.
C27_Witness ==
    /\ last.op = "save"
    /\ last.fail_at = 3
    /\ Len(last.log_data.success_emails) + Len(last.log_data.failed_emails) >= 2
    /\ email_logs = <<>>


\* The rows of password_reset_otp holding the pair (email, otp).
RowsOfPair(email, otp) ==
    {r \in password_reset_otp : r.email = email /\ r.otp = otp}

RowsOfEmail(rows, email) == {r \in rows : r.email = email}

\* C29: when save_otp(email, otp) has committed, the table holds exactly one
\* row of that email, the row of this call, still unused; so no row stored
\* for that email before is left for verify_otp to accept.
C29_OneRowAfterSave ==
    [][ \A b \in Sessions :
            save_otp_insert(b) =>
                /\ Cardinality(RowsOfEmail(password_reset_otp', saving[b].email)) = 1
                /\ \A r \in RowsOfEmail(password_reset_otp', saving[b].email) :
                      r.id = saving[b].id /\ r.otp = saving[b].otp /\ ~ r.used
      ]_vars


\* C30: a password changes only in a reset_password step of a session whose
\* flags say that verify_otp succeeded for the email of that password, and
\* the step leaves the session without the flags; a session gets the flags
\* only in the step in which its verify_otp call succeeds, for the email of
\* that call.  A session that changed a password therefore changes another
\* one only after a new successful verification.
C30_ResetNeedsVerifiedSession ==
    [][ /\ password_hash' # password_hash =>
              \E b \in Sessions :
                  /\ session[b].otp_verified
                  /\ session[b].reset_email \in Emails
                  /\ \A e \in Emails :
                        password_hash'[e] # password_hash[e] =>
                            e = session[b].reset_email
                  /\ last' = AuthOp("reset_password", b, NoEmail, "", TRUE)
                  /\ ~ session'[b].otp_verified
                  /\ session'[b].reset_email = NoEmail
        /\ \A b \in Sessions :
              (session'[b].otp_verified /\ session'[b] # session[b]) =>
                  /\ verifying[b].pc = "selected"
                  /\ last' = AuthOp("verify_otp", b, NoEmail, "", TRUE)
                  /\ session'[b].reset_email = verifying[b].email
      ]_vars

\* A session changed a password and is left without the flags.
C30_Witness ==
    /\ last.op = "reset_password"
    /\ last.ok
    /\ \E e \in Emails : password_hash[e] = 1
    /\ session[last.session] = NoSession

====
